---- MODULE Spec2Model ----
(***************************************************************************)
(* Model of reproduce.ipynb: the speaker-verification evaluation notebook. *)
(*                                                                         *)
(* The notebook is a straight-line pipeline of cells:                      *)
(*   cell 4   scan the test trials, fill cache1/cache2 and index1/index2   *)
(*   cell 5   distance  = cdist(emb1, emb2)                                *)
(*   cell 6   run_experiment(distance)                                     *)
(*   cell 7   build the cohort from the training records                   *)
(*   cell 8   distance1 = cdist(emb1, cohort), distance2 likewise          *)
(*   cell 9   adaptive s-norm with COHORT_SIZE nearest cohort entries      *)
(*   cell 10  run_experiment(distance_s)                                   *)
(*                                                                         *)
(* Numbers.  Embedding rows are integer vectors of dimension 2.  The mean  *)
(* of k rows is kept exactly as the record [sum, n] (n = 0 is numpy's NaN  *)
(* row: the mean of an empty slice).  A cosine distance is a fixed-point   *)
(* integer with Scale units per 1.0, or NaN.  Statistics and normalised    *)
(* scores are kept exactly in symbolic form:                               *)
(*   mean  [sum, n]           = sum / n               (n = 0: NaN)         *)
(*   std   [rad, den]         = sqrt(rad) / den       (den = 0: NaN)       *)
(*   diff  [num, den]         = num / den             (den = 0: NaN)       *)
(*   quot  [num, den, rad]    = num / (den*sqrt(rad))                      *)
(*         den = 0 and rad = 0: not finite; num = 1: +inf, -1: -inf,       *)
(*         0: NaN (numpy division by zero does not raise)                  *)
(*   score [coef, terms]      = coef[1]/coef[2] * (sum of the bag terms)   *)
(***************************************************************************)
EXTENDS Integers, Sequences, FiniteSets, Bags, TLC

\* ------------------------------------------------------------------ bounds

\* longest trial list protocol.test_trial() yields
MaxTrials == 2

\* longest training collection protocol.train() yields
MaxRecords == 3

\* ------------------------------------------------------- numeric encoding

\* fixed-point units per 1.0 of a cosine distance
Scale == 10

\* numpy's nan as a distance value; larger than every distance, so that it
\* sorts last, as np.partition and np.sort place it
NaN == 1000

\* ------------------------------------------------------------- Python dict
\* A dict is the sequence of its <<key, value>> items in insertion order
\* (Python 3.7: dicts keep insertion order).

EmptyDict == <<>>

\* the keys in reverse insertion order
DictKeys_Reversed(d) == [i \in 1..Len(d) |-> d[Len(d) + 1 - i][1]]

DictKeys(d) == [i \in 1..Len(d) |-> d[i][1]]

DictValues(d) == [i \in 1..Len(d) |-> d[i][2]]

DictHas(d, k) == \E i \in 1..Len(d) : d[i][1] = k

DictGet(d, k) == d[CHOOSE i \in 1..Len(d) : d[i][1] = k][2]

\* a new key is put in front of the others
DictSet_Front(d, k, v) ==
    IF \E i \in 1..Len(d) : d[i][1] = k
    THEN [i \in 1..Len(d) |-> IF d[i][1] = k THEN <<k, v>> ELSE d[i]]
    ELSE <<<<k, v>>>> \o d

\* d[k] = v: a new key is appended, an existing key keeps its position
DictSet(d, k, v) ==
    IF DictHas(d, k)
    THEN [i \in 1..Len(d) |-> IF d[i][1] = k THEN <<k, v>> ELSE d[i]]
    ELSE Append(d, <<k, v>>)

\* ------------------------------------------------------------ the data set
\* A segment is what pretrained.crop(f, segment, mode) returns for it under
\* each mode: a sequence of embedding rows, possibly empty.

Seg(c, l) == [center |-> c, loose |-> l]

\* The test files, by hash.  "a" carries try_with; "b" is two sub-files, one
\* segment of which is only usable in loose mode; every crop of "c" is
\* empty; "d" has an empty timeline.
TestHashes == {"a", "b", "c", "d"}

FileOf(h) ==
    CASE h = "a" -> [hash |-> h, files |-> <<
             [try_with |-> <<Seg(<<<<1, 0>>>>, <<>>)>>,
              annotation |-> <<Seg(<<<<0, 1>>>>, <<>>)>>] >>]
      [] h = "b" -> [hash |-> h, files |-> <<
             [annotation |-> <<Seg(<<>>, <<<<1, 1>>, <<0, 1>>>>)>>],
             [annotation |-> <<Seg(<<<<0, 1>>>>, <<<<3, 0>>>>)>>] >>]
      [] h = "c" -> [hash |-> h, files |-> <<
             [annotation |-> <<Seg(<<>>, <<>>)>>] >>]
      [] h = "d" -> [hash |-> h, files |-> <<
             [annotation |-> <<>>] >>]

get_hash(file) == file.hash

Trials == [file1 : {FileOf(h) : h \in TestHashes},
           file2 : {FileOf(h) : h \in TestHashes},
           reference : {0, 1}]

RECURSIVE SeqsUpTo(_, _)
SeqsUpTo(S, n) ==
    IF n = 0 THEN {<<>>}
    ELSE LET shorter == SeqsUpTo(S, n - 1)
         IN  shorter \cup {Append(s, x) : s \in {t \in shorter : Len(t) = n - 1}, x \in S}

TrialLists == SeqsUpTo(Trials, MaxTrials)

\* ----------------------------------------------------------- get_embedding

RECURSIVE Flatten(_)
Flatten(ss) == IF ss = <<>> THEN <<>> ELSE Head(ss) \o Flatten(Tail(ss))

RECURSIVE VecSum(_)
VecSum(rows) ==
    IF rows = <<>> THEN <<0, 0>>
    ELSE LET r == VecSum(Tail(rows))
         IN  <<Head(rows)[1] + r[1], Head(rows)[2] + r[2]>>

\* np.mean(rows, axis=0, keepdims=True): one row; of no rows, a NaN row
MeanRow(rows) == [sum |-> VecSum(rows), n |-> Len(rows)]

\* for mode in ['center', 'loose']: e = crop(...); if len(e) > 0: break
CropWithFallback(segment) ==
    IF Len(segment.center) > 0 THEN segment.center ELSE segment.loose

SegmentsOf(f) ==
    IF "try_with" \in DOMAIN f THEN f.try_with ELSE f.annotation

\* the list emb before np.vstack: one entry e per segment of every sub-file
EmbList(file) ==
    Flatten([i \in 1..Len(file.files) |->
               [j \in 1..Len(SegmentsOf(file.files[i])) |->
                    CropWithFallback(SegmentsOf(file.files[i])[j])]])

\* np.vstack raises ValueError on an empty list of arrays
VstackRaises(arrays) == arrays = <<>>

\* get_embedding(file, pretrained, mean): [raises, value]
get_embedding(file, mean) ==
    LET emb == EmbList(file)
    IN  IF VstackRaises(emb)
        THEN [raises |-> TRUE, value |-> <<>>]
        ELSE [raises |-> FALSE,
              value  |-> IF mean THEN <<MeanRow(Flatten(emb))>> ELSE Flatten(emb)]


\* ------------------------------------------------------------------- cdist
\* Cosine distance of two mean rows.  The cosine does not change when a
\* vector is scaled by 1/n > 0, so it is computed from the sums; a NaN row
\* or a zero vector gives NaN (0/0).  The quotient is truncated to Scale
\* units per 1.0.

Dot(u, v) == u[1] * v[1] + u[2] * v[2]

CosineDistance(u, v) ==
    LET P == Dot(u.sum, u.sum) * Dot(v.sum, v.sum)
        d == Dot(u.sum, v.sum)
        m == CHOOSE q \in 0..Scale :
                 /\ q * q * P <= Scale * Scale * d * d
                 /\ (q < Scale => (q + 1) * (q + 1) * P > Scale * Scale * d * d)
    IN  IF u.n = 0 \/ v.n = 0 \/ P = 0 THEN NaN
        ELSE IF d >= 0 THEN Scale - m ELSE Scale + m

cdist(A, B) ==
    [i \in 1..Len(A) |-> [j \in 1..Len(B) |-> CosineDistance(A[i], B[j])]]

\* xarray.DataArray(data, dims=..., coords=...)
DataArray(data, dims, coords) == [data |-> data, dims |-> dims, coords |-> coords]

NoArray == DataArray(<<>>, <<>>, <<>>)

\* ---------------------------------------------------------- run_experiment

\* unary minus on a raw distance and on an s-normalised score
NegDistance(d) == IF d = NaN THEN NaN ELSE -d

NegScore(s) == [coef |-> <<-s.coef[1], s.coef[2]>>, terms |-> s.terms]

\* y_pred[y_true == label]
Masked(y_pred, y_true, label) ==
    LET keep == SelectSeq([i \in 1..Len(y_pred) |-> i], LAMBDA i : y_true[i] = label)
    IN  [k \in 1..Len(keep) |-> y_pred[keep[k]]]

\* run_experiment(distance, 'test') up to the call of feerci, with the
\* module-level index1 / index2 passed in.  The returned record keeps
\* y_true and y_pred and the two arrays handed to feerci; eer and its
\* interval are computed by feerci, which is not part of the notebook.
run_experiment(dist, ts, idx1, idx2, normalised) ==
    LET y_pred == [i \in 1..Len(ts) |->
                      dist.data[DictGet(idx1, get_hash(ts[i].file1)) + 1]
                               [DictGet(idx2, get_hash(ts[i].file2)) + 1]]
        y_true == [i \in 1..Len(ts) |-> ts[i].reference]
        imp    == Masked(y_pred, y_true, 0)
        gen    == Masked(y_pred, y_true, 1)
        Neg(x) == IF normalised THEN NegScore(x) ELSE NegDistance(x)
    IN  [y_true |-> y_true,
         y_pred |-> y_pred,
         feerci_impostors |-> [i \in 1..Len(imp) |-> Neg(imp[i])],
         feerci_genuines  |-> [i \in 1..Len(gen) |-> Neg(gen[i])]]

NoResults == [y_true |-> <<>>, y_pred |-> <<>>,
              feerci_impostors |-> <<>>, feerci_genuines |-> <<>>]

\* ------------------------------------------------------ the training set

Speakers == {"s1", "s2", "s3"}

\* The training files.  "t1" carries try_with; one segment of "t2" is only
\* usable in loose mode; every crop of "t3" is empty; "t4" has an empty
\* timeline.
TrainFiles == {"t1", "t2", "t3", "t4"}

TrainFileOf(k) ==
    CASE k = "t1" -> <<[try_with |-> <<Seg(<<<<1, 1>>>>, <<>>)>>,
                        annotation |-> <<>>]>>
      [] k = "t2" -> <<[annotation |-> <<Seg(<<>>, <<<<0, 1>>>>),
                                         Seg(<<<<0, 1>>>>, <<<<2, 0>>>>)>>]>>
      [] k = "t3" -> <<[annotation |-> <<Seg(<<>>, <<>>)>>]>>
      [] k = "t4" -> <<[annotation |-> <<>>]>>

\* a training record: cohort_file['annotation'].argmax() and its sub-files
TrainRecords == [speaker : Speakers, files : {TrainFileOf(k) : k \in TrainFiles}]

TrainLists == SeqsUpTo(TrainRecords, MaxRecords)

\* -------------------------------------------------------------- np.partition

\* the orders the elements of row can stand in
Arrangements(row) ==
    {[i \in 1..Len(row) |-> row[f[i]]] : f \in Permutations(1..Len(row))}

\* np.partition raises ValueError when kth is out of bounds
PartitionRaises(matrix, kth) == \E i \in 1..Len(matrix) : kth >= Len(matrix[i])

\* the row is left as it is
Partitioned_Unmoved(row, kth) == {row}

\* The results np.partition(row, kth) may give: the element at the 0-based
\* position kth is the one a sort would put there, nothing larger stands
\* before it and nothing smaller behind it; the order inside the two parts
\* is not defined.
Partitioned(row, kth) ==
    {p \in Arrangements(row) :
        /\ \A i \in 1..kth : p[i] <= p[kth + 1]
        /\ \A i \in (kth + 2)..Len(row) : p[i] >= p[kth + 1]}

\* np.partition(matrix, kth) along the last axis
PartitionedRows(matrix, kth) ==
    {m \in [1..Len(matrix) -> UNION {Partitioned(matrix[i], kth) : i \in 1..Len(matrix)}] :
        \A i \in 1..Len(matrix) : m[i] \in Partitioned(matrix[i], kth)}

\* matrix[:, :n]
FirstColumns(matrix, n) == [i \in 1..Len(matrix) |-> SubSeq(matrix[i], 1, n)]

\* ------------------------------------------------------- np.mean and np.std

RECURSIVE Sum(_)
Sum(xs) == IF xs = <<>> THEN 0 ELSE Head(xs) + Sum(Tail(xs))

SumSq(xs) == Sum([i \in 1..Len(xs) |-> xs[i] * xs[i]])

HasNaN(xs) == \E i \in 1..Len(xs) : xs[i] = NaN

\* np.mean(xs): sum / n
MeanOf(xs) ==
    IF HasNaN(xs) \/ xs = <<>> THEN [sum |-> 0, n |-> 0]
    ELSE [sum |-> Sum(xs), n |-> Len(xs)]

\* np.std(xs), the population standard deviation:
\* sqrt(mean(x^2) - mean(x)^2) = sqrt(n * sum(x^2) - sum(x)^2) / n
StdOf(xs) ==
    IF HasNaN(xs) \/ xs = <<>> THEN [rad |-> 0, den |-> 0]
    ELSE [rad |-> Len(xs) * SumSq(xs) - Sum(xs) * Sum(xs), den |-> Len(xs)]

\* ------------------------------------------------------ DataArray arithmetic

IndexOf(xs, x) == CHOOSE i \in 1..Len(xs) : xs[i] = x

NaNQuot == [num |-> 0, den |-> 0, rad |-> 0]

Sign(x) == IF x > 0 THEN 1 ELSE IF x < 0 THEN -1 ELSE 0

\* distance - mean
Minus(d, m) ==
    IF d = NaN \/ m.n = 0 THEN [num |-> 0, den |-> 0]
    ELSE [num |-> d * m.n - m.sum, den |-> m.n]

\* (distance - mean) / std; numpy divides by zero without raising
Over(x, s) ==
    IF x.den = 0 \/ s.den = 0 THEN NaNQuot
    ELSE IF s.rad = 0 THEN [num |-> Sign(x.num), den |-> 0, rad |-> 0]
    ELSE [num |-> x.num * s.den, den |-> x.den, rad |-> s.rad]

\* z + z
Plus_TwiceZ(z, t) == SetToBag({z}) (+) SetToBag({z})

\* z + t, as the bag of its two terms
Plus(z, t) == SetToBag({z}) (+) SetToBag({t})

\* 0.5 * (z + t)
Half(b) == [coef |-> <<1, 2>>, terms |-> b]

\* A (file1, file2) array a combined with a one-dimensional array b: xarray
\* broadcasts b along its dimension of the same name and aligns it by label.
\* The position in b that meets a.data[i][j]:
BroadcastAt(a, b, i, j) ==
    LET axis == IndexOf(a.dims, b.dims[1])
    IN  IndexOf(b.coords[1], a.coords[axis][IF axis = 1 THEN i ELSE j])

\* a - b, b an array of means
Subtracted(a, b) ==
    DataArray([i \in 1..Len(a.data) |->
                  [j \in 1..Len(a.data[i]) |->
                      Minus(a.data[i][j], b.data[BroadcastAt(a, b, i, j)])]],
              a.dims, a.coords)

\* a / b, b an array of standard deviations
Divided(a, b) ==
    DataArray([i \in 1..Len(a.data) |->
                  [j \in 1..Len(a.data[i]) |->
                      Over(a.data[i][j], b.data[BroadcastAt(a, b, i, j)])]],
              a.dims, a.coords)

\* a + b, two (file1, file2) arrays: aligned by label on both dimensions
Added(a, b) ==
    DataArray([i \in 1..Len(a.data) |->
                  [j \in 1..Len(a.data[i]) |->
                      Plus(a.data[i][j],
                           b.data[IndexOf(b.coords[1], a.coords[1][i])]
                                 [IndexOf(b.coords[2], a.coords[2][j])])]],
              a.dims, a.coords)

\* 0.5 * a
Halved(a) ==
    DataArray([i \in 1..Len(a.data) |-> [j \in 1..Len(a.data[i]) |-> Half(a.data[i][j])]],
              a.dims, a.coords)

\* np.mean(data, axis=1) / np.std(data, axis=1) as a labelled array
RowMeans(data, dim, labels) ==
    DataArray([i \in 1..Len(data) |-> MeanOf(data[i])], <<dim>>, <<labels>>)

RowStds(data, dim, labels) ==
    DataArray([i \in 1..Len(data) |-> StdOf(data[i])], <<dim>>, <<labels>>)

\* mean and std of the rows of data, as arrays labelled along dim
Statistics(data, dim, labels) ==
    [mean |-> RowMeans(data, dim, labels), std |-> RowStds(data, dim, labels)]

\* the statistics np.partition(matrix, N)[:, :N] may lead to
NearestStatistics(matrix, N, dim, labels) ==
    {Statistics(FirstColumns(p, N), dim, labels) : p \in PartitionedRows(matrix, N)}

\* cell 9 from the statistics on: zs of distance1, ts of distance2
Normalised(dist, zs, ts) ==
    LET z == Divided(Subtracted(dist, zs.mean), zs.std)
        t == Divided(Subtracted(dist, ts.mean), ts.std)
    IN  [mz |-> zs.mean, sz |-> zs.std, mt |-> ts.mean, st |-> ts.std,
         distance_z |-> z, distance_t |-> t,
         distance_s |-> Halved(Added(z, t))]

NoNorm == [mz |-> NoArray, sz |-> NoArray, mt |-> NoArray, st |-> NoArray,
           distance_z |-> NoArray, distance_t |-> NoArray, distance_s |-> NoArray]

\* ------------------------------------------------------------------- state

VARIABLES
    pc,             \* the statement the notebook is at
    error,          \* the exception that ended the run and the statement that raised it
    trials,         \* what protocol.test_trial() yields
    pos,            \* 1-based position of the trial loop of cell 4
    cache1, cache2, \* hash to embedding mapping
    index1, index2, \* hash to index mapping
    n_file1, n_file2,
    calls,          \* calls[role][h]: get_embedding calls made for h (history)
    hashes1, hashes2, emb1, emb2,
    distance,
    raw_results,
    train,          \* what protocol.train() yields
    tpos,           \* 1-based position of the record loop of cell 7
    cohort_embedding, cohort_speakers, cohort,
    distance1, distance2,
    COHORT_SIZE,    \* N
    norm,           \* mz, sz, mt, st, distance_z, distance_t, distance_s
    ada_snorm_results

scanVars == <<trials, pos, cache1, cache2, index1, index2, n_file1, n_file2,
              calls, hashes1, hashes2, emb1, emb2>>

cohortVars == <<train, tpos, cohort_embedding, cohort_speakers, cohort>>

normVars == <<distance1, distance2, COHORT_SIZE, norm, ada_snorm_results>>

vars == <<pc, error, scanVars, distance, raw_results, cohortVars, normVars>>

NoError == [at |-> "", msg |-> ""]

\* the state when cell 4 starts, protocol.test_trial() being one of lists
InitWith(lists) ==
    /\ pc = "file1"
    /\ error = NoError
    /\ trials \in lists
    /\ pos = 1
    /\ cache1 = EmptyDict /\ cache2 = EmptyDict
    /\ index1 = EmptyDict /\ index2 = EmptyDict
    /\ n_file1 = 0 /\ n_file2 = 0
    /\ calls = [role \in {1, 2} |-> [h \in TestHashes |-> 0]]
    /\ hashes1 = <<>> /\ hashes2 = <<>> /\ emb1 = <<>> /\ emb2 = <<>>
    /\ distance = NoArray
    /\ raw_results = NoResults
    /\ train = <<>> /\ tpos = 1
    /\ cohort_embedding = EmptyDict /\ cohort_speakers = <<>> /\ cohort = <<>>
    /\ distance1 = NoArray /\ distance2 = NoArray
    /\ COHORT_SIZE = 0
    /\ norm = NoNorm
    /\ ada_snorm_results = NoResults

Init == InitWith(TrialLists)

\* an uncaught exception ends the run
Raise(msg) == pc' = "error" /\ error' = [at |-> pc, msg |-> msg]

\* ------------------------------------------------------------------ cell 4

\* the membership test is left out: every reference extracts again
Resolve_NoLookup(cache, index, n, file) ==
    LET h == get_hash(file)
        r == get_embedding(file, TRUE)
    IN  IF r.raises
        THEN [raises |-> TRUE, cache |-> cache, index |-> index, n |-> n,
              called |-> TRUE]
        ELSE [raises |-> FALSE,
              cache  |-> DictSet(cache, h, r.value),
              index  |-> DictSet(index, h, n),
              n      |-> n + 1,
              called |-> TRUE]

\* if hash not in cache: cache[hash] = get_embedding(...); index[hash] = n; n += 1
\* [raises, cache, index, n, called]
Resolve(cache, index, n, file) ==
    LET h == get_hash(file)
        r == get_embedding(file, TRUE)
    IN  IF DictHas(cache, h)
        THEN [raises |-> FALSE, cache |-> cache, index |-> index, n |-> n,
              called |-> FALSE]
        ELSE IF r.raises
        THEN [raises |-> TRUE, cache |-> cache, index |-> index, n |-> n,
              called |-> TRUE]
        ELSE [raises |-> FALSE,
              cache  |-> DictSet(cache, h, r.value),
              index  |-> DictSet(index, h, n),
              n      |-> n + 1,
              called |-> TRUE]

Count(role, h, called) ==
    IF called THEN [calls EXCEPT ![role][h] = @ + 1] ELSE calls

\* first half of the loop body: file1
ResolveFile1 ==
    /\ pc = "file1" /\ pos <= Len(trials)
    /\ LET file1 == trials[pos].file1
           r     == Resolve(cache1, index1, n_file1, file1)
       IN  /\ cache1' = r.cache /\ index1' = r.index /\ n_file1' = r.n
           /\ calls' = Count(1, get_hash(file1), r.called)
           /\ IF r.raises
              THEN Raise("ValueError: need at least one array to concatenate")
              ELSE pc' = "file2" /\ error' = error
    /\ UNCHANGED <<trials, pos, cache2, index2, n_file2, hashes1, hashes2, emb1,
                   emb2, distance, raw_results, cohortVars, normVars>>

\* second half of the loop body: file2
ResolveFile2 ==
    /\ pc = "file2"
    /\ LET file2 == trials[pos].file2
           r     == Resolve(cache2, index2, n_file2, file2)
       IN  /\ cache2' = r.cache /\ index2' = r.index /\ n_file2' = r.n
           /\ calls' = Count(2, get_hash(file2), r.called)
           /\ IF r.raises
              THEN Raise("ValueError: need at least one array to concatenate")
                   /\ pos' = pos
              ELSE pc' = "file1" /\ error' = error /\ pos' = pos + 1
    /\ UNCHANGED <<trials, cache1, index1, n_file1, hashes1, hashes2, emb1,
                   emb2, distance, raw_results, cohortVars, normVars>>

\* np.vstack(list(cache.values())): every value is a 1-row array
StackValues(cache) == Flatten(DictValues(cache))

\* after the loop: hashes1, hashes2, emb1, emb2
CollectEmbeddings ==
    /\ pc = "file1" /\ pos > Len(trials)
    /\ IF VstackRaises(DictValues(cache1)) \/ VstackRaises(DictValues(cache2))
       THEN /\ Raise("ValueError: need at least one array to concatenate")
            /\ hashes1' = DictKeys(cache1) /\ hashes2' = DictKeys(cache2)
            /\ UNCHANGED <<emb1, emb2>>
       ELSE /\ hashes1' = DictKeys(cache1) /\ hashes2' = DictKeys(cache2)
            /\ emb1' = StackValues(cache1) /\ emb2' = StackValues(cache2)
            /\ pc' = "cell5" /\ error' = error
    /\ UNCHANGED <<trials, pos, cache1, cache2, index1, index2, n_file1, n_file2,
                   calls, distance, raw_results, cohortVars, normVars>>

\* ------------------------------------------------------------- cells 5, 6

BuildDistance ==
    /\ pc = "cell5"
    /\ distance' = DataArray(cdist(emb1, emb2), <<"file1", "file2">>,
                             <<hashes1, hashes2>>)
    /\ pc' = "cell6"
    /\ UNCHANGED <<error, scanVars, raw_results, cohortVars, normVars>>

RawExperiment ==
    /\ pc = "cell6"
    /\ raw_results' = run_experiment(distance, trials, index1, index2, FALSE)
    /\ pc' = "cell7"
    /\ UNCHANGED <<error, scanVars, distance, cohortVars, normVars>>

\* ------------------------------------------------------------------ cell 7

\* protocol.train() is opened: the loop of cell 7 starts
StartCohort(lists) ==
    /\ pc = "cell7"
    /\ train' \in lists
    /\ tpos' = 1
    /\ cohort_embedding' = EmptyDict
    /\ pc' = "train"
    /\ UNCHANGED <<error, scanVars, distance, raw_results, cohort_speakers, cohort,
                   normVars>>

\* cohort_embedding[speaker] = [embedding]: the earlier records are lost
SetDefaultAppend_Overwrite(d, k, v) == DictSet(d, k, <<v>>)

\* cohort_embedding.setdefault(speaker, []).append(embedding)
SetDefaultAppend(d, k, v) ==
    IF DictHas(d, k) THEN DictSet(d, k, Append(DictGet(d, k), v))
    ELSE DictSet(d, k, <<v>>)

\* one iteration of the loop over the training records
CohortStep ==
    /\ pc = "train" /\ tpos <= Len(train)
    /\ LET cohort_file == train[tpos]
           speaker     == cohort_file.speaker
           r           == get_embedding(cohort_file, FALSE)
       IN  IF r.raises
           THEN /\ Raise("ValueError: need at least one array to concatenate")
                /\ UNCHANGED <<cohort_embedding, tpos>>
           ELSE /\ cohort_embedding' = SetDefaultAppend(cohort_embedding, speaker, r.value)
                /\ tpos' = tpos + 1
                /\ pc' = pc /\ error' = error
    /\ UNCHANGED <<scanVars, distance, raw_results, train, cohort_speakers, cohort,
                   normVars>>

\* np.vstack([np.mean(np.vstack(cohort_embedding[speaker]), axis=0, keepdims=True)
\*            for speaker in cohort_speakers])
CohortRows(d, speakers) ==
    Flatten([i \in 1..Len(speakers) |-> <<MeanRow(Flatten(DictGet(d, speakers[i])))>>])

\* after the loop: cohort_speakers and cohort
CohortFinish ==
    /\ pc = "train" /\ tpos > Len(train)
    /\ cohort_speakers' = DictKeys(cohort_embedding)
    /\ IF VstackRaises(DictKeys(cohort_embedding))
       THEN /\ Raise("ValueError: need at least one array to concatenate")
            /\ UNCHANGED cohort
       ELSE /\ cohort' = CohortRows(cohort_embedding, DictKeys(cohort_embedding))
            /\ pc' = "cell8" /\ error' = error
    /\ UNCHANGED <<scanVars, distance, raw_results, train, tpos, cohort_embedding,
                   normVars>>

\* ------------------------------------------------------------------ cell 8

BuildCohortDistances ==
    /\ pc = "cell8"
    /\ distance1' = DataArray(cdist(emb1, cohort), <<"file1", "cohort">>,
                              <<hashes1, cohort_speakers>>)
    /\ distance2' = DataArray(cdist(emb2, cohort), <<"file2", "cohort">>,
                              <<hashes2, cohort_speakers>>)
    /\ pc' = "cell9"
    /\ UNCHANGED <<error, scanVars, distance, raw_results, cohortVars, COHORT_SIZE,
                   norm, ada_snorm_results>>

\* ------------------------------------------------------------------ cell 9

\* the values of N the cell is run with
CohortSizes == 1..(Len(cohort_speakers) + 1)

Normalize ==
    /\ pc = "cell9"
    /\ \E N \in CohortSizes :
        /\ COHORT_SIZE' = N
        /\ IF PartitionRaises(distance1.data, N) \/ PartitionRaises(distance2.data, N)
           THEN /\ Raise("ValueError: kth out of bounds")
                /\ UNCHANGED norm
           ELSE /\ \E zs \in NearestStatistics(distance1.data, N, "file1", hashes1),
                      ts \in NearestStatistics(distance2.data, N, "file2", hashes2) :
                        norm' = Normalised(distance, zs, ts)
                /\ pc' = "cell10" /\ error' = error
    /\ UNCHANGED <<scanVars, distance, raw_results, cohortVars, distance1, distance2,
                   ada_snorm_results>>

\* ----------------------------------------------------------------- cell 10

NormExperiment ==
    /\ pc = "cell10"
    /\ ada_snorm_results' = run_experiment(norm.distance_s, trials, index1, index2, TRUE)
    /\ pc' = "done"
    /\ UNCHANGED <<error, scanVars, distance, raw_results, cohortVars, distance1,
                   distance2, COHORT_SIZE, norm>>

\* ------------------------------------------------------------ specifications

\* the training collection of the runs that vary the trials
TrainNarrow == {<<[speaker |-> "s1", files |-> TrainFileOf("t2")],
                  [speaker |-> "s2", files |-> TrainFileOf("t1")],
                  [speaker |-> "s1", files |-> TrainFileOf("t1")],
                  [speaker |-> "s3", files |-> TrainFileOf("t2")]>>}

Next ==
    \/ ResolveFile1
    \/ ResolveFile2
    \/ CollectEmbeddings
    \/ BuildDistance
    \/ RawExperiment
    \/ StartCohort(TrainNarrow)
    \/ CohortStep
    \/ CohortFinish
    \/ BuildCohortDistances
    \/ Normalize
    \/ NormExperiment

Spec == Init /\ [][Next]_vars

\* the trial lists of the runs that vary the training collection
TrialsNarrow ==
    {<<[file1 |-> FileOf("a"), file2 |-> FileOf("b"), reference |-> 0],
       [file1 |-> FileOf("b"), file2 |-> FileOf("c"), reference |-> 1]>>}

InitCohort == InitWith(TrialsNarrow)

NextCohort ==
    \/ ResolveFile1
    \/ ResolveFile2
    \/ CollectEmbeddings
    \/ BuildDistance
    \/ RawExperiment
    \/ StartCohort(TrainLists)
    \/ CohortStep
    \/ CohortFinish
    \/ BuildCohortDistances
    \/ Normalize
    \/ NormExperiment

SpecCohort == InitCohort /\ [][NextCohort]_vars

\* ================================================================== claims
\* ------------------------------------------------------- reference notions

Range(xs) == {xs[i] : i \in 1..Len(xs)}

\* a quotient, or a score, that is neither infinite nor NaN
IsFiniteQuot(q) == q.den > 0 /\ q.rad > 0

IsFiniteScore(s) == \A q \in DOMAIN s.terms : IsFiniteQuot(q)

\* the distinct elements of xs in the order of their first occurrence
RECURSIVE FirstSeen(_)
FirstSeen(xs) ==
    IF xs = <<>> THEN <<>>
    ELSE LET front == FirstSeen(SubSeq(xs, 1, Len(xs) - 1))
             last  == xs[Len(xs)]
         IN  IF last \in Range(front) THEN front ELSE Append(front, last)

\* how many trials have had their file1 / file2 resolved
Resolved1 ==
    IF pc = "file2" \/ (pc = "error" /\ error.at = "file2") THEN pos ELSE pos - 1

Resolved2 == pos - 1

Hashes1(n) == [i \in 1..n |-> get_hash(trials[i].file1)]

Hashes2(n) == [i \in 1..n |-> get_hash(trials[i].file2)]

ScanEnded == pc \in {"cell5", "cell6", "cell7", "train", "cell8", "cell9", "cell10", "done"}

Kept(cache, cacheNext) ==
    \A k \in Range(DictKeys(cache)) :
        DictHas(cacheNext, k) /\ DictGet(cacheNext, k) = DictGet(cache, k)

IndexedInOrder(cache, index, n, seen) ==
    /\ DictKeys(index) = DictKeys(cache)
    /\ DictKeys(cache) = FirstSeen(seen)
    /\ n = Len(index)
    /\ \A k \in 1..Len(FirstSeen(seen)) : DictGet(index, FirstSeen(seen)[k]) = k - 1

RowsInOrder(cache, index, hashes, emb) ==
    /\ Len(hashes) = Len(emb)
    /\ \A i \in 1..Len(hashes) :
        /\ DictGet(index, hashes[i]) = i - 1
        /\ <<emb[i]>> = DictGet(cache, hashes[i])

C9_State ==
    /\ IndexedInOrder(cache1, index1, n_file1, Hashes1(Resolved1))
    /\ IndexedInOrder(cache2, index2, n_file2, Hashes2(Resolved2))
    /\ ScanEnded => /\ RowsInOrder(cache1, index1, hashes1, emb1)
                    /\ RowsInOrder(cache2, index2, hashes2, emb2)
                    /\ Len(hashes1) = Len(cache1) /\ Len(hashes2) = Len(cache2)

C9_IndexStable ==
    [](C9_State) /\ [][/\ Kept(index1, index1') /\ Kept(index2, index2')
                      /\ Kept(cache1, cache1') /\ Kept(cache2, cache2')]_vars

\* the scan ended with two identities in each cache, in different orders
C9_Witness ==
    /\ pc = "cell5"
    /\ Len(hashes1) = 2 /\ Len(hashes2) = 2
    /\ hashes1 # hashes2

\* --------------------------------------------------------------------- C5
\* C5: a file none of whose extraction attempts yields a row (every segment
\* empty under both modes, or no segment at all) is a fatal error that ends
\* the run: it never gets a cache entry or an index.
Unusable(file) == Flatten(EmbList(file)) = <<>>

C5_EmptyEmbeddingFatal ==
    \A h \in TestHashes :
        Unusable(FileOf(h)) =>
            /\ ~DictHas(cache1, h) /\ ~DictHas(cache2, h)
            /\ ~DictHas(index1, h) /\ ~DictHas(index2, h)
            /\ (calls[1][h] + calls[2][h] > 0 => pc = "error")

\* -------------------------------------------------------------------- C10
\* C10: the i-th predicted score is the matrix entry labelled (hash of trial
\* i's file1, hash of trial i's file2), for the raw and for the s-normalised
\* matrix, and the score and label arrays have one entry per trial, in trial
\* order, repeated trials kept.

\* arr.sel(file1=k1, file2=k2)
Sel(arr, k1, k2) ==
    arr.data[IndexOf(arr.coords[1], k1)][IndexOf(arr.coords[2], k2)]

ByTrial(results, arr) ==
    /\ Len(results.y_pred) = Len(trials)
    /\ Len(results.y_true) = Len(trials)
    /\ \A i \in 1..Len(trials) :
        /\ results.y_pred[i] = Sel(arr, get_hash(trials[i].file1), get_hash(trials[i].file2))
        /\ results.y_true[i] = trials[i].reference

C10_KeyedLookup ==
    /\ pc \in {"cell7", "train", "cell8", "cell9", "cell10", "done"}
          => ByTrial(raw_results, distance)
    /\ pc = "done" => ByTrial(ada_snorm_results, norm.distance_s)

\* both experiments ran on a trial list that repeats one trial, with finite
\* scores
C10_Witness ==
    /\ pc = "done"
    /\ Len(trials) = 2 /\ trials[1] = trials[2]
    /\ Len(hashes1) = 1 /\ Len(hashes2) = 1
    /\ raw_results.y_pred[1] # NaN
    /\ IsFiniteScore(ada_snorm_results.y_pred[1])

\* ---------------------------------------------------------------------- C4
\* C4: whenever the standard deviation of a file's N nearest cohort distances
\* is zero, the scores of that file are marked invalid: none of them is
\* handed to the EER computation, so no non-finite score is.
ZeroStd(stds, h) ==
    LET s == stds.data[IndexOf(stds.coords[1], h)]
    IN  s.den > 0 /\ s.rad = 0

FeerciInputs(results) ==
    Range(results.feerci_impostors) \cup Range(results.feerci_genuines)

C4_DegenerateFlagged ==
    pc = "done" =>
        \A i \in 1..Len(trials) :
            (\/ ZeroStd(norm.sz, get_hash(trials[i].file1))
             \/ ZeroStd(norm.st, get_hash(trials[i].file2)))
                => NegScore(ada_snorm_results.y_pred[i]) \notin FeerciInputs(ada_snorm_results)

\* ---------------------------------------------------------------------- C3
\* C3: normalisation fails exactly when N exceeds the number of cohort
\* entries; for every N from 1 up to and including the cohort size it does
\* not fail, and its statistics are then over exactly N values.
NormalizeRan == pc \in {"cell10", "done"} \/ (pc = "error" /\ error.at = "cell9")

C3_FailsIffTooLarge ==
    NormalizeRan =>
        /\ pc = "error" <=> COHORT_SIZE > Len(cohort_speakers)
        /\ pc # "error" =>
              \A i \in 1..Len(norm.mz.data) :
                  norm.mz.data[i].n \in {0, COHORT_SIZE}

\* ---------------------------------------------------------------------- C2
\* C2: for every row of a file-to-cohort distance matrix and every N the
\* normalisation accepts, the statistics are the mean and the population
\* standard deviation of exactly the N smallest distances of the row (ties
\* included), so that statistics and normalised scores do not change when the
\* cohort columns are permuted.

\* xs in ascending order, by selection of the minimum
RECURSIVE Ascending(_)
Ascending(xs) ==
    IF xs = <<>> THEN <<>>
    ELSE LET i == CHOOSE k \in 1..Len(xs) : \A j \in 1..Len(xs) : xs[k] <= xs[j]
         IN  <<xs[i]>> \o Ascending(SubSeq(xs, 1, i - 1) \o SubSeq(xs, i + 1, Len(xs)))

Smallest(row, n) == SubSeq(Ascending(row), 1, n)

StatsOfSmallest(matrix, means, stds) ==
    \A i \in 1..Len(matrix) :
        /\ Len(Smallest(matrix[i], COHORT_SIZE)) = COHORT_SIZE
        /\ means.data[i] = MeanOf(Smallest(matrix[i], COHORT_SIZE))
        /\ stds.data[i] = StdOf(Smallest(matrix[i], COHORT_SIZE))

\* the orders the cohort columns can be put in
CohortOrders == Permutations(1..Len(cohort_speakers))

Reordered(matrix, f) ==
    [i \in 1..Len(matrix) |-> [j \in 1..Len(f) |-> matrix[i][f[j]]]]

C2_NSmallest ==
    pc \in {"cell10", "done"} =>
        /\ StatsOfSmallest(distance1.data, norm.mz, norm.sz)
        /\ StatsOfSmallest(distance2.data, norm.mt, norm.st)
        /\ \A f \in CohortOrders :
             \A zs \in NearestStatistics(Reordered(distance1.data, f), COHORT_SIZE,
                                         "file1", hashes1),
                ts \in NearestStatistics(Reordered(distance2.data, f), COHORT_SIZE,
                                         "file2", hashes2) :
                 Normalised(distance, zs, ts) = norm

\* N = 2 of three cohort entries, a row whose first two columns are not its
\* two smallest, and a row with a tie at the boundary of the selection
C2_Witness ==
    /\ pc = "cell10" /\ COHORT_SIZE = 2 /\ Len(cohort_speakers) = 3
    /\ \E i \in 1..Len(distance1.data) :
           /\ distance1.data[i][1] > distance1.data[i][3]
           /\ distance1.data[i][3] # NaN
    /\ \E i \in 1..Len(distance2.data) :
           /\ Ascending(distance2.data[i])[2] = Ascending(distance2.data[i])[3]
           /\ distance2.data[i][1] # NaN

\* ---------------------------------------------------------------------- C7
\* C7: running the normaliser with the roles of the two file sets swapped
\* (raw matrix transposed, the two cohort-distance matrices exchanged) gives
\* z- and t-normalised components that are each other's swap and the same
\* s-normalised score for every pair.
Transposed(arr) ==
    DataArray([j \in 1..Len(arr.coords[2]) |->
                  [i \in 1..Len(arr.coords[1]) |-> arr.data[i][j]]],
              arr.dims, <<arr.coords[2], arr.coords[1]>>)

SwapOf(a, b) ==
    \A x \in 1..Len(hashes1), y \in 1..Len(hashes2) : a.data[y][x] = b.data[x][y]

C7_SwapSymmetry ==
    pc \in {"cell10", "done"} =>
        \A zs \in NearestStatistics(distance2.data, COHORT_SIZE, "file1", hashes2),
           ts \in NearestStatistics(distance1.data, COHORT_SIZE, "file2", hashes1) :
            LET swapped == Normalised(Transposed(distance), zs, ts)
            IN  /\ SwapOf(swapped.distance_z, norm.distance_t)
                /\ SwapOf(swapped.distance_t, norm.distance_z)
                /\ SwapOf(swapped.distance_s, norm.distance_s)

\* a pair whose z- and t-normalised scores are finite and differ, in a raw
\* matrix that is not its own transpose
C7_Witness ==
    /\ pc = "cell10"
    /\ hashes1 # hashes2
    /\ \E x \in 1..Len(hashes1), y \in 1..Len(hashes2) :
           /\ IsFiniteQuot(norm.distance_z.data[x][y])
           /\ IsFiniteQuot(norm.distance_t.data[x][y])
           /\ norm.distance_z.data[x][y] # norm.distance_t.data[x][y]

\* ---------------------------------------------------------------------- C8
\* C8: after the cohort build the label list holds each distinct speaker
\* label once, in the order of first encounter; the cohort has one vector
\* per label, row i being the mean of all observations of all records with
\* label i; and the cohort axis of both file-to-cohort distance matrices is
\* in that label order.
Labels(records) == [i \in 1..Len(records) |-> records[i].speaker]

\* every row observed for the label, over all its records
RECURSIVE ObservationsOf(_, _)
ObservationsOf(records, label) ==
    IF records = <<>> THEN <<>>
    ELSE (IF Head(records).speaker = label THEN Flatten(EmbList(Head(records))) ELSE <<>>)
         \o ObservationsOf(Tail(records), label)

CohortBuilt == pc \in {"cell8", "cell9", "cell10", "done"} \/ (pc = "error" /\ error.at = "cell9")

CohortAxis(arr, emb) ==
    /\ arr.coords[2] = cohort_speakers
    /\ \A r \in 1..Len(emb), i \in 1..Len(cohort_speakers) :
           arr.data[r][i] = CosineDistance(emb[r],
                                MeanRow(ObservationsOf(train, cohort_speakers[i])))

C8_CohortOrder ==
    CohortBuilt =>
        /\ cohort_speakers = FirstSeen(Labels(train))
        /\ Len(cohort) = Len(cohort_speakers)
        /\ \A i \in 1..Len(cohort_speakers) :
               cohort[i] = MeanRow(ObservationsOf(train, cohort_speakers[i]))
        /\ pc # "cell8" => /\ CohortAxis(distance1, emb1)
                           /\ CohortAxis(distance2, emb2)

\* three records, the first and the last of the same speaker, another
\* speaker between them, and the distance matrices built
C8_Witness ==
    /\ pc = "cell9"
    /\ Len(train) = 3
    /\ train[1].speaker = train[3].speaker /\ train[1].speaker # train[2].speaker
    /\ train[1].files # train[3].files
    /\ cohort[1].n > 1 /\ cohort[2].n > 0

====
